---- MODULE Spec2Model ----
(***************************************************************************)
(* A model of the QuizMind-AI quiz console: the App component's state      *)
(* machine (src/App.tsx) and the quiz signature / response parsing of      *)
(* src/services/geminiService.ts.                                          *)
(*                                                                         *)
(* JavaScript strings are TLA+ strings; a JavaScript object used as a map  *)
(* (parsedCache, history, selectedOptions) is a function whose DOMAIN is   *)
(* the set of its keys; a JavaScript Set (globalFlaggedIds, sessionFlags)  *)
(* is a duplicate-free sequence in insertion order, which is the order     *)
(* Array.from gives.                                                       *)
(* The keys of parsedCache are kept, in insertion order, in cacheKeys: it   *)
(* is the order Object.values(parsedCache) follows.                        *)
(*                                                                         *)
(* Left out of the state: theme, inputMode, csvContent and the hub's tab.  *)
(* The tab buttons of the hub are always available in idle and change      *)
(* nothing else, so a handler of a tab is taken as "open the tab, click",  *)
(* and the file import and the CSV import, which differ in the tab they    *)
(* leave selected, are calls of one kind.                                  *)
(***************************************************************************)
EXTENDS Integers, Sequences, FiniteSets, TLC

(***************************************************************************)
(* Bounds of the model.                                                    *)
(***************************************************************************)
\* Submissions per run (Date.now() is a logical clock that ticks once per submission).
MaxAttempts == 2
\* Largest value of timerSeconds the tick may produce.
MaxTime == 2
\* Extraction calls that may be in flight together.
MaxPending == 2
\* Most ids a flag set may hold.
MaxFlags == 1
\* Longest input of the stand-alone shuffle and signature runs.
MaxLen == 3
\* Most questions of an attempt whose percentage is rendered on its own.
MaxTotal == 40

(***************************************************************************)
(* Generic helpers.                                                        *)
(***************************************************************************)
Range(s) == {s[i] : i \in 1..Len(s)}

\* How often x occurs in s.
Occurrences(s, x) == Cardinality({i \in 1..Len(s) : s[i] = x})

\* s and t hold the same elements with the same multiplicities.
SameMultiset(s, t) ==
    /\ Len(s) = Len(t)
    /\ \A x \in Range(s) \cup Range(t) : Occurrences(s, x) = Occurrences(t, x)

\* Every sequence over S of length at most n.
SeqsUpTo(S, n) == UNION {[1..k -> S] : k \in 0..n}

\* Every arrangement of the elements of s (as a set of sequences).
Perms(s) == {t \in [1..Len(s) -> Range(s)] : SameMultiset(s, t)}

\* s is a prefix of t.
IsPrefix(s, t) == Len(s) <= Len(t) /\ SubSeq(t, 1, Len(s)) = s

(***************************************************************************)
(* Strings as UTF-16 code units.  TLA+ strings are atomic, so charCodeAt   *)
(* is a table over the question texts the model uses.                      *)
(***************************************************************************)
Texts == {"Qa", "Qb", "Q", "\"q\n"}

CharCodes(s) ==
    CASE s = "Qa"  -> <<81, 97>>
      [] s = "Qb"  -> <<81, 98>>
      [] s = "Q"   -> <<81>>
      [] s = "\"q\n" -> <<34, 113, 10>>

\* a < b in the order of Array.prototype.sort without a comparator:
\* code unit by code unit, a proper prefix first.
RECURSIVE CodesLess(_, _)
CodesLess(a, b) ==
    IF b = <<>> THEN FALSE
    ELSE IF a = <<>> THEN TRUE
    ELSE IF Head(a) # Head(b) THEN Head(a) < Head(b)
    ELSE CodesLess(Tail(a), Tail(b))

StringLess(s, t) == CodesLess(CharCodes(s), CharCodes(t))

\* x put into the sorted sequence s, after the elements that are not greater.
RECURSIVE InsertSorted(_, _)
InsertSorted(x, s) ==
    IF s = <<>> THEN <<x>>
    ELSE IF StringLess(x, Head(s)) THEN <<x>> \o s
    ELSE <<Head(s)>> \o InsertSorted(x, Tail(s))

\* A signature over the texts in the order of the response.
SortTextsUnsorted(texts) == texts

\* texts.sort()
RECURSIVE SortTexts(_)
SortTexts(texts) ==
    IF texts = <<>> THEN <<>>
    ELSE InsertSorted(texts[Len(texts)], SortTexts(SubSeq(texts, 1, Len(texts) - 1)))

\* The lower-case hexadecimal digit of d, as a code unit.
HexDigit(d) == IF d < 10 THEN 48 + d ELSE 87 + d

\* \uXXXX for the code unit c.
UnicodeEscape(c) ==
    <<92, 117, HexDigit(c \div 4096), HexDigit((c \div 256) % 16),
      HexDigit((c \div 16) % 16), HexDigit(c % 16)>>

IsLeadingSurrogate(c) == c >= 55296 /\ c <= 56319
IsTrailingSurrogate(c) == c >= 56320 /\ c <= 57343

\* What JSON.stringify writes for one code unit that is not part of a
\* surrogate pair: the short escapes of backspace, tab, line feed, form
\* feed, carriage return, quotation mark and reverse solidus, \uXXXX for
\* every other control character and for a lone surrogate, and the code
\* unit itself otherwise.
JsonEscapeUnit(c) ==
    CASE c = 8  -> <<92, 98>>
      [] c = 9  -> <<92, 116>>
      [] c = 10 -> <<92, 110>>
      [] c = 12 -> <<92, 102>>
      [] c = 13 -> <<92, 114>>
      [] c = 34 -> <<92, 34>>
      [] c = 92 -> <<92, 92>>
      [] OTHER  -> IF c < 32 \/ IsLeadingSurrogate(c) \/ IsTrailingSurrogate(c)
                   THEN UnicodeEscape(c)
                   ELSE <<c>>

\* The code units JSON.stringify writes between the quotation marks of one
\* string; a leading surrogate followed by a trailing one is copied.
RECURSIVE JsonEscape(_)
JsonEscape(codes) ==
    IF codes = <<>> THEN <<>>
    ELSE IF /\ Len(codes) >= 2
            /\ IsLeadingSurrogate(codes[1])
            /\ IsTrailingSurrogate(codes[2])
    THEN <<codes[1], codes[2]>> \o JsonEscape(Tail(Tail(codes)))
    ELSE JsonEscapeUnit(Head(codes)) \o JsonEscape(Tail(codes))

JsonString(s) == <<34>> \o JsonEscape(CharCodes(s)) \o <<34>>

RECURSIVE JsonItems(_)
JsonItems(texts) ==
    IF texts = <<>> THEN <<>>
    ELSE IF Len(texts) = 1 THEN JsonString(texts[1])
    ELSE JsonString(texts[1]) \o <<44>> \o JsonItems(Tail(texts))

\* JSON.stringify of an array of strings, as code units.
JsonStringify(texts) == <<91>> \o JsonItems(texts) \o <<93>>

(***************************************************************************)
(* 32-bit integer arithmetic of the signature hash.  A value is an int32;  *)
(* sums are formed on 16-bit halves so that no intermediate result leaves  *)
(* the int32 range.                                                        *)
(***************************************************************************)
Half == 65536

LoHalf(h) == h % Half
HiHalf(h) == (h \div Half) % Half

\* The int32 whose unsigned halves are hi and lo (ToInt32).
FromHalves(hi, lo) ==
    IF hi >= 32768 THEN (hi - Half) * Half + lo ELSE hi * Half + lo

\* hash << 5
Shl5(h) ==
    LET lo32 == LoHalf(h) * 32
        hi32 == HiHalf(h) * 32 + (lo32 \div Half)
    IN  FromHalves(hi32 % Half, lo32 % Half)

\* ToInt32(a + b)
WrapAdd(a, b) ==
    LET lo == LoHalf(a) + LoHalf(b)
        hi == HiHalf(a) + HiHalf(b) + (lo \div Half)
    IN  FromHalves(hi % Half, lo % Half)

\* ToInt32(a - b)
WrapSub(a, b) ==
    LET lo == LoHalf(a) - LoHalf(b)
        hi == HiHalf(a) - HiHalf(b) + (lo \div Half)
    IN  FromHalves(hi % Half, lo % Half)

\* One round of the loop: hash = ((hash << 5) - hash) + char; hash = hash & hash.
\* The sum is exact in a double, so the single ToInt32 of `hash & hash`
\* equals wrapping after each operation.
HashStep(hash, char) == WrapAdd(WrapSub(Shl5(hash), hash), char)

\* The loop over the code units of str, from the hash reached so far.  (The
\* test `next \in Int` makes TLC compute each round's value before
\* the next round starts; it is always true.)
RECURSIVE HashFrom(_, _)
HashFrom(hash, codes) ==
    IF codes = <<>> THEN hash
    ELSE LET next == HashStep(hash, Head(codes))
         IN  IF next \in Int THEN HashFrom(next, Tail(codes)) ELSE next

\* `quiz-${Math.abs(hash)}`; Math.abs(-2^31) is 2^31, which is no int32.
SignatureOfHash(hash) ==
    IF hash = -2147483647 - 1 THEN "quiz-2147483648"
    ELSE "quiz-" \o ToString(IF hash < 0 THEN -hash ELSE hash)

\* The texts of the questions of an extraction result, in its order.
QuestionTexts(data) == [i \in 1..Len(data.questions) |-> data.questions[i].question]

generateSignature(data) ==
    SignatureOfHash(HashFrom(0, JsonStringify(SortTexts(QuestionTexts(data)))))

(***************************************************************************)
(* The shuffle utility (App.tsx, shuffleArray).  Arrays are 0-based in the *)
(* code and 1-based here: index i of the code is position i + 1.           *)
(***************************************************************************)
\* An exchange that writes position i only, so that one element is lost and
\* another one doubled.
SwapAtOverwriting(arr, i, j) ==
    [k \in 1..Len(arr) |-> IF k = i + 1 THEN arr[j + 1] ELSE arr[k]]

\* [newArr[i], newArr[j]] = [newArr[j], newArr[i]]
SwapAt(arr, i, j) ==
    [k \in 1..Len(arr) |->
        IF k = i + 1 THEN arr[j + 1]
        ELSE IF k = j + 1 THEN arr[i + 1]
        ELSE arr[k]]

\* A draw that never leaves the element in place.
RandomIndexBelow(i) == 0..(i - 1)

\* The values Math.floor(Math.random() * (i + 1)) can take.
RandomIndex(i) == 0..i

\* The loop `for (i = ...; i > 0; i--)` from index i on: every array it can
\* leave in newArr, over all outcomes of Math.random().
RECURSIVE ShuffleFrom(_, _)
ShuffleFrom(newArr, i) ==
    IF i > 0
    THEN UNION {ShuffleFrom(SwapAt(newArr, i, j), i - 1) : j \in RandomIndex(i)}
    ELSE {newArr}

\* Every result shuffleArray(array) can return.
shuffleArray(array) == ShuffleFrom(array, Len(array) - 1)

(***************************************************************************)
(* The extraction collaborator and the quiz library.                       *)
(***************************************************************************)
\* The null of activeQuizId, and the null of selectedAttempt.
Null == "<null>"
NoAttempt == [id |-> Null]

\* The sentinel of an unanswered question.
NotAnswered == "Not Answered"

\* The keys of RAW_QUIZZES (rawContent.ts), in Object.keys order.
LibraryIds == <<"lib1">>

\* RAW_QUIZZES (rawContent.ts): the title of each library entry.
RAW_QUIZZES == [id \in Range(LibraryIds) |-> [title |-> "Library set 1"]]

\* The questions the extraction call may return.
RawQa == [question |-> "Qa", options |-> <<"", "A">>, correctAnswer |-> ""]
RawQb == [question |-> "Qb", options |-> <<"B">>, correctAnswer |-> "B"]
RawQc == [question |-> "Q", options |-> <<"", "C">>, correctAnswer |-> "C"]

\* The parsed JSON of the responses the extraction call may return: an empty
\* quiz, a quiz of one question, two quizzes of the same two questions in
\* either order, and a quiz whose question has the empty string as a wrong
\* option.
RawData ==
    << [title |-> "T0", questions |-> <<>>],
       [title |-> "T1", questions |-> <<RawQa>>],
       [title |-> "T2", questions |-> <<RawQa, RawQb>>],
       [title |-> "T3", questions |-> <<RawQb, RawQa>>],
       [title |-> "T4", questions |-> <<RawQc>>] >>

\* What one extraction call ends with: a response that parses into data, or
\* a failure (the remote call rejects, or the text is no JSON, or it has no
\* `questions` array; each of them ends in the caller's catch block).  A run
\* sees the responses of RawData whose indices are in quizzes.
Outcomes(quizzes) ==
    {[ok |-> TRUE, data |-> RawData[i]] : i \in quizzes}
        \cup {[ok |-> FALSE, data |-> RawData[1]]}

\* The outcome of a call that failed.
Failure == [ok |-> FALSE, data |-> RawData[1]]

parseGeminiResponse(data) ==
    LET quizId == generateSignature(data)
    IN  [id |-> quizId,
         title |-> data.title,
         questions |->
            [idx \in 1..Len(data.questions) |->
                [id |-> quizId \o "-q-" \o ToString(idx - 1),
                 question |-> data.questions[idx].question,
                 options |-> data.questions[idx].options,
                 correctAnswer |-> data.questions[idx].correctAnswer]]]

(***************************************************************************)
(* Maps and insertion-ordered sets.                                        *)
(***************************************************************************)
EmptyMap == [k \in {} |-> Null]

\* {...m, [k]: v}
Put(m, k, v) == [x \in DOMAIN m \cup {k} |-> IF x = k THEN v ELSE m[x]]

\* s without the elements equal to x.
RECURSIVE Without(_, _)
Without(s, x) ==
    IF s = <<>> THEN <<>>
    ELSE IF Head(s) = x THEN Without(Tail(s), x)
    ELSE <<Head(s)>> \o Without(Tail(s), x)

\* A toggle that only ever adds.
ToggleMemberAddOnly(set, id) ==
    IF id \in Range(set) THEN set ELSE Append(set, id)

\* next.has(id) ? next.delete(id) : next.add(id)
ToggleMember(set, id) ==
    IF id \in Range(set) THEN Without(set, id) ELSE Append(set, id)

\* s without repeated elements, first occurrences kept.
RECURSIVE Dedupe(_)
Dedupe(s) ==
    IF s = <<>> THEN <<>>
    ELSE <<Head(s)>> \o Dedupe(Without(Tail(s), Head(s)))

\* The concatenation of the sequences of a sequence.
RECURSIVE Flatten(_)
Flatten(ss) == IF ss = <<>> THEN <<>> ELSE Head(ss) \o Flatten(Tail(ss))

(***************************************************************************)
(* The state of the App component, the environment it runs in, and the     *)
(* state of the stand-alone runs of the pure functions.                    *)
(***************************************************************************)
VARIABLES
    state,              \* QuizState; "unmounted" once a render has thrown
    history,            \* quiz id -> sequence of QuizAttempt
    parsedCache,        \* quiz id -> QuizData
    cacheKeys,          \* Object.keys(parsedCache): its keys in insertion order
    globalFlaggedIds,   \* Set of question ids
    activeQuizId,       \* quiz id or Null
    shuffledQuestions,  \* sequence of Question
    currentIdx,         \* 0-based index into shuffledQuestions
    selectedOptions,    \* question id -> option
    sessionFlags,       \* Set of question ids
    userAnswers,        \* sequence of UserAnswer
    timerSeconds,
    isPaused,
    selectedAttempt,    \* QuizAttempt or NoAttempt
    pending,            \* the extraction calls in flight, oldest first
    tickTasks,          \* the number of live setInterval tasks of the timer effect
    now,                \* Date.now(), a logical clock
    array,              \* stand-alone shuffle run: the argument of shuffleArray
    newArr,             \* stand-alone shuffle run: the local newArr
    loopI,              \* stand-alone shuffle run: the loop variable i
    shufflePc,          \* stand-alone shuffle run: "call" | "loop" | "done"
    sigInput,           \* stand-alone import run: the responses imported in turn
    sigPos,             \* stand-alone import run: how many of them were imported
    flagId,             \* stand-alone toggle run: the id toggleFlag is called with
    flagStart,          \* stand-alone toggle run: the two flag sets before the calls
    flagCalls,          \* stand-alone toggle run: the calls made
    storage,            \* localStorage at start-up: key -> text read by the load effect
    loaded,             \* whether the load effect has run
    accScore,           \* stand-alone row render: att.score
    accTotal,           \* stand-alone row render: att.totalQuestions
    accShown,           \* stand-alone row render: the percentage rendered
    accPc,              \* stand-alone row render: "none" | "call" | "done"
    budget              \* what the environment does at most in this run

appVars ==
    <<state, history, parsedCache, cacheKeys, globalFlaggedIds, activeQuizId,
      shuffledQuestions, currentIdx, selectedOptions, sessionFlags, userAnswers,
      timerSeconds, isPaused, selectedAttempt, pending, tickTasks, now>>
shuffleVars == <<array, newArr, loopI, shufflePc>>
sigVars == <<sigInput, sigPos>>
flagVars == <<flagId, flagStart, flagCalls>>
loadVars == <<storage, loaded>>
accVars == <<accScore, accTotal, accShown, accPc>>
vars == <<appVars, budget, shuffleVars, sigVars, flagVars, loadVars, accVars>>

sessionVars ==
    <<shuffledQuestions, currentIdx, selectedOptions, sessionFlags, userAnswers,
      timerSeconds>>
storeVars == <<history, parsedCache, cacheKeys, globalFlaggedIds>>

(***************************************************************************)
(* Derived data of the component.                                          *)
(***************************************************************************)
\* The keys of { ...prev, [k]: v } in Object.keys order: a key that prev
\* has keeps its place, a new key comes last.
InsertKey(keys, k) == IF k \in Range(keys) THEN keys ELSE Append(keys, k)

\* RAW_QUIZZES[id]?.title || 'Set'
LibraryTitle(id) ==
    IF id \in DOMAIN RAW_QUIZZES /\ RAW_QUIZZES[id].title # ""
    THEN RAW_QUIZZES[id].title
    ELSE "Set"

\* parsedCache[id] || { id, title: RAW_QUIZZES[id]?.title || 'Set', questions: [] }
getQuizData(id) ==
    IF id \in DOMAIN parsedCache THEN parsedCache[id]
    ELSE [id |-> id, title |-> LibraryTitle(id), questions |-> <<>>]

\* A mistake bank that also counts the answers of skipped questions.
FailedIdsCountingSkipped(qId) ==
    LET answers == UNION {Range(history[qId][a].answers) : a \in 1..Len(history[qId])}
    IN  {ans.questionId : ans \in {x \in answers : ~x.isCorrect}}

\* The ids added to failedIds for one quiz of history.
FailedIds(qId) ==
    LET answers == UNION {Range(history[qId][a].answers) : a \in 1..Len(history[qId])}
    IN  {ans.questionId :
            ans \in {x \in answers : ~x.isCorrect /\ x.selectedOption # NotAnswered}}

\* quiz.questions.filter(q => failedIds.has(q.id))
FailedQObjects(qId) ==
    SelectSeq(getQuizData(qId).questions, LAMBDA q : q.id \in FailedIds(qId))

\* The groups record of the mistake bank: quiz id -> its failed questions.
failedQuestionsGrouped ==
    [qId \in {k \in DOMAIN history : Len(FailedQObjects(k)) > 0} |-> FailedQObjects(qId)]

\* The flagged questions of every cached quiz.
flaggedQuestions ==
    Flatten([n \in 1..Len(cacheKeys) |->
                SelectSeq(parsedCache[cacheKeys[n]].questions,
                       LAMBDA q : q.id \in Range(globalFlaggedIds))])

\* selectedOptions[q.id] is a truthy value: present and not the empty string.
HasTruthySelection(sel, qid) == qid \in DOMAIN sel /\ sel[qid] # ""

\* A UserAnswer that counts a question without a selection as correct.
AnswerOfUnselectedCorrect(q, sel) ==
    [questionId |-> q.id,
     selectedOption |-> IF HasTruthySelection(sel, q.id) THEN sel[q.id] ELSE NotAnswered,
     isCorrect |-> q.id \notin DOMAIN sel \/ sel[q.id] = q.correctAnswer]

\* The UserAnswer of one question (handleSubmit).
AnswerOf(q, sel) ==
    [questionId |-> q.id,
     selectedOption |-> IF HasTruthySelection(sel, q.id) THEN sel[q.id] ELSE NotAnswered,
     isCorrect |-> q.id \in DOMAIN sel /\ sel[q.id] = q.correctAnswer]

finalAnswers(questions, sel) ==
    [n \in 1..Len(questions) |-> AnswerOf(questions[n], sel)]

\* finalAnswers.filter(a => a.isCorrect).length
ScoreOf(answers) == Cardinality({n \in 1..Len(answers) : answers[n].isCorrect})

\* The QuizAttempt handleSubmit builds.
AttemptOf(questions, sel, flags, seconds, clock) ==
    [id |-> "att-" \o ToString(clock),
     timestamp |-> clock,
     score |-> ScoreOf(finalAnswers(questions, sel)),
     totalQuestions |-> Len(questions),
     timeSpent |-> seconds,
     flaggedQuestionIds |-> flags,
     answers |-> finalAnswers(questions, sel)]

\* A submission that replaces the attempts of the quiz by the new one.
AppendAttemptOverwriting(h, id, attempt) == Put(h, id, <<attempt>>)

\* { ...history, [id]: [...(history[id] || []), attempt] }
AppendAttempt(h, id, attempt) ==
    Put(h, id, (IF id \in DOMAIN h THEN h[id] ELSE <<>>) \o <<attempt>>)

(***************************************************************************)
(* Numbers.  A JavaScript number is an IEEE 754 double: a positive one is  *)
(* kept as its Precision significant bits, the leading one first, and the  *)
(* exponent of the leading bit, so that [exp |-> e, mant |-> m] is the sum *)
(* of m[i] * 2^(e + 1 - i).  Every operation gives the exact result        *)
(* rounded to Precision bits, ties to the even mantissa.                   *)
(***************************************************************************)
\* The significant bits of a double.
Precision == 53

\* The binary digits of n, the leading one first.
RECURSIVE BitsOf(_)
BitsOf(n) == IF n = 0 THEN <<>> ELSE Append(BitsOf(n \div 2), n % 2)

\* The number whose binary digits are bits.
RECURSIVE ValueOf(_)
ValueOf(bits) ==
    IF bits = <<>> THEN 0
    ELSE 2 * ValueOf(SubSeq(bits, 1, Len(bits) - 1)) + bits[Len(bits)]

\* bits + 1, for bits that are not all ones.
Increment(bits) ==
    LET last == CHOOSE i \in 1..Len(bits) :
                    bits[i] = 0 /\ \A j \in (i + 1)..Len(bits) : bits[j] = 1
    IN  [i \in 1..Len(bits) |->
            IF i < last THEN bits[i] ELSE IF i = last THEN 1 ELSE 0]

\* The double nearest to the number whose digits, from the leading one of
\* exponent exp on, are bits (more than Precision of them) followed by
\* zeros, or by something that is not zero when inexact.
RoundToDouble(bits, exp, inexact) ==
    LET kept == SubSeq(bits, 1, Precision)
        above == \/ inexact
                 \/ \E i \in (Precision + 2)..Len(bits) : bits[i] = 1
        up == bits[Precision + 1] = 1 /\ (above \/ kept[Precision] = 1)
    IN  IF ~up THEN [exp |-> exp, mant |-> kept]
        ELSE IF \A i \in 1..Precision : kept[i] = 1
        THEN [exp |-> exp + 1,
              mant |-> [i \in 1..Precision |-> IF i = 1 THEN 1 ELSE 0]]
        ELSE [exp |-> exp, mant |-> Increment(kept)]

\* The exponent of the leading bit of num / den.
RECURSIVE Exponent(_, _)
Exponent(num, den) ==
    IF num >= 2 * den THEN Exponent(num, 2 * den) + 1
    ELSE IF num < den THEN Exponent(2 * num, den) - 1
    ELSE 0

RECURSIVE Pow2(_)
Pow2(n) == IF n = 0 THEN 1 ELSE 2 * Pow2(n - 1)

\* The binary digits of a sequence of digits to the base 256, eight for
\* each.
DigitBits(digits) ==
    [i \in 1..(8 * Len(digits)) |->
        (digits[((i - 1) \div 8) + 1] \div Pow2(7 - ((i - 1) % 8))) % 2]

\* The digits to the base 256 of the number whose binary digits are bits.
DigitsOf(bits) ==
    LET count == (Len(bits) + 7) \div 8
        pad == 8 * count - Len(bits)
        padded == [i \in 1..(8 * count) |-> IF i <= pad THEN 0 ELSE bits[i - pad]]
    IN  [n \in 1..count |-> ValueOf(SubSeq(padded, 8 * n - 7, 8 * n))]

\* bits without its leading zeros, for bits that hold a one.
StripZeros(bits) ==
    SubSeq(bits,
           CHOOSE i \in 1..Len(bits) :
               bits[i] = 1 /\ \A j \in 1..(i - 1) : bits[j] = 0,
           Len(bits))

\* Long division, eight binary digits at a time: the next n digits to the
\* base 256 of a quotient whose remainder so far is r < den, put after the
\* digits of acc, and the remainder left.
RECURSIVE QuotientDigits(_, _, _, _)
QuotientDigits(r, den, n, acc) ==
    IF n = 0 THEN [digits |-> acc, rem |-> r]
    ELSE QuotientDigits((256 * r) % den, den, n - 1,
                        Append(acc, (256 * r) \div den))

\* num / den as a double, for integers num > 0 and den > 0.
DoubleDivide(num, den) ==
    LET e == Exponent(num, den)
        n == IF e < 0 THEN num * Pow2(-e) ELSE num
        d == IF e > 0 THEN den * Pow2(e) ELSE den
        q == QuotientDigits(n - d, d, (Precision + 7) \div 8, <<>>)
    IN  RoundToDouble(<<1>> \o DigitBits(q.digits), e, q.rem # 0)

\* k times the number of the digits, plus carry: the digits of the product
\* put before those of acc, and the carry left over.
RECURSIVE TimesDigits(_, _, _, _)
TimesDigits(digits, k, carry, acc) ==
    IF digits = <<>> THEN [carry |-> carry, digits |-> acc]
    ELSE TimesDigits(SubSeq(digits, 1, Len(digits) - 1), k,
                     (digits[Len(digits)] * k + carry) \div 256,
                     <<(digits[Len(digits)] * k + carry) % 256>> \o acc)

\* x * k as a double, for an integer k > 1.
DoubleTimes(x, k) ==
    LET p == TimesDigits(DigitsOf(x.mant), k, 0, <<>>)
        product == StripZeros(BitsOf(p.carry) \o DigitBits(p.digits))
    IN  RoundToDouble(product, x.exp + Len(product) - Precision, FALSE)

\* Math.round(x) for a positive double x: the nearest integer, the greater
\* one when x is halfway.
MathRound(x) ==
    IF x.exp < -1 THEN 0
    ELSE LET bit(i) == IF i <= Precision THEN x.mant[i] ELSE 0
         IN  ValueOf([i \in 1..(x.exp + 1) |-> bit(i)]) + bit(x.exp + 2)

\* 100 * score / totalQuestions, halves rounded up, for totalQuestions > 0.
RoundedPercent(score, totalQuestions) ==
    (200 * score + totalQuestions) \div (2 * totalQuestions)

\* Math.round((score / totalQuestions) * 100) on doubles.  0 / 0 is NaN,
\* shown as "NaN", and a positive score over 0 is Infinity, shown as
\* "Infinity": the values -1 and -2 stand for them.
Accuracy(score, totalQuestions) ==
    IF totalQuestions = 0 THEN (IF score = 0 THEN -1 ELSE -2)
    ELSE IF score = 0 THEN 0
    ELSE MathRound(DoubleTimes(DoubleDivide(score, totalQuestions), 100))

\* "Total Accuracy" of the completed screen.
CompletedAccuracy ==
    Accuracy(ScoreOf(userAnswers), Len(shuffledQuestions))

\* The percentage of one row of the history screen.
RowAccuracy(att) == Accuracy(att.score, att.totalQuestions)

(***************************************************************************)
(* Rendering: the timer effect and the render of the playing screen.       *)
(***************************************************************************)
\* A timer effect without its cleanup.
timerEffectNoCleanup(tasks, oldState, oldPaused, newState, newPaused) ==
    IF oldState = newState /\ oldPaused = newPaused THEN tasks
    ELSE tasks + (IF newState = "playing" /\ ~newPaused THEN 1 ELSE 0)

\* A timer effect that does not look at isPaused.
timerEffectIgnoringPause(tasks, oldState, oldPaused, newState, newPaused) ==
    IF oldState = newState /\ oldPaused = newPaused THEN tasks
    ELSE tasks
         - (IF oldState = "playing" THEN 1 ELSE 0)
         + (IF newState = "playing" THEN 1 ELSE 0)

\* The timer effect, deps [state, isPaused]: when a dependency changed, the
\* cleanup of the last run clears the interval that run created, and the
\* new run creates one when playing and not paused.
timerEffect(tasks, oldState, oldPaused, newState, newPaused) ==
    IF oldState = newState /\ oldPaused = newPaused THEN tasks
    ELSE tasks
         - (IF oldState = "playing" /\ ~oldPaused THEN 1 ELSE 0)
         + (IF newState = "playing" /\ ~newPaused THEN 1 ELSE 0)

\* The state the component is left in after a handler asked for newState:
\* the playing screen reads shuffledQuestions[currentIdx].id, which throws
\* when that element is missing, and an uncaught render error unmounts the
\* whole tree.
RenderedState(newState, questions, idx) ==
    IF newState = "playing" /\ ~(idx + 1 \in 1..Len(questions))
    THEN "unmounted"
    ELSE newState

\* setState(newState) and setIsPaused(newPaused), the render and the effects.
Render(newState, newPaused) ==
    /\ state' = RenderedState(newState, shuffledQuestions', currentIdx')
    /\ isPaused' = newPaused
    /\ tickTasks' = timerEffect(tickTasks, state, isPaused, state', newPaused)

Mounted == state # "unmounted"

(***************************************************************************)
(* The handlers.                                                           *)
(***************************************************************************)
\* Header logo: onClick={() => setState('idle')}
LogoClick ==
    /\ Mounted
    /\ UNCHANGED <<sessionVars, storeVars, activeQuizId, selectedAttempt,
                   pending, now>>
    /\ Render("idle", isPaused)

\* handleSelectQuiz(id) up to its await: a library card was clicked.
handleSelectQuiz(id) ==
    /\ state = "idle"
    /\ activeQuizId' = id
    /\ UNCHANGED <<sessionVars, storeVars, selectedAttempt, now>>
    /\ IF id \in DOMAIN parsedCache
       THEN /\ Render("history", isPaused)
            /\ UNCHANGED pending
       ELSE /\ Len(pending) < budget.pending
            /\ Render("extracting", isPaused)
            /\ pending' = Append(pending, [kind |-> "select", id |-> id])

\* The file input's onChange up to its await (a file was chosen), and the
\* CSV button's onClick up to its await (the pasted text is not blank).
StartImport ==
    /\ state = "idle"
    /\ Len(pending) < budget.pending
    /\ pending' = Append(pending, [kind |-> "import", id |-> Null])
    /\ UNCHANGED <<sessionVars, storeVars, activeQuizId, selectedAttempt, now>>
    /\ Render("extracting", isPaused)

StartFileImport == StartImport

StartCsvImport == StartImport

\* The CSV button's onClick with blank text: if(!csvContent.trim()) return.
BlankCsvImport ==
    /\ state = "idle"
    /\ UNCHANGED appVars

RemoveAt(s, n) == SubSeq(s, 1, n - 1) \o SubSeq(s, n + 1, Len(s))

\* A continuation that issues the call again when it failed.
ResolveExtractionRetrying(n, outcome) ==
    LET call == pending[n]
        data == parseGeminiResponse(outcome.data)
    IN
    /\ n \in 1..Len(pending)
    /\ UNCHANGED <<sessionVars, history, globalFlaggedIds, selectedAttempt, now>>
    /\ IF ~Mounted
       THEN /\ pending' = RemoveAt(pending, n)
            /\ UNCHANGED <<state, isPaused, tickTasks, parsedCache, cacheKeys,
                            activeQuizId>>
       ELSE IF ~outcome.ok
       THEN /\ pending' = Append(RemoveAt(pending, n), call)
            /\ Render("extracting", isPaused)
            /\ UNCHANGED <<parsedCache, cacheKeys, activeQuizId>>
       ELSE IF call.kind = "select"
       THEN /\ pending' = RemoveAt(pending, n)
            /\ parsedCache' = Put(parsedCache, call.id, [data EXCEPT !.id = call.id])
            /\ cacheKeys' = InsertKey(cacheKeys, call.id)
            /\ Render("history", isPaused)
            /\ UNCHANGED activeQuizId
       ELSE /\ pending' = RemoveAt(pending, n)
            /\ parsedCache' = Put(parsedCache, data.id, data)
            /\ cacheKeys' = InsertKey(cacheKeys, data.id)
            /\ activeQuizId' = data.id
            /\ Render("history", isPaused)

\* A continuation that stores its result and the active quiz id but changes
\* the screen only when the extracting screen is still shown.
ResolveExtractionKeepingScreen(n, outcome) ==
    LET call == pending[n]
        data == parseGeminiResponse(outcome.data)
        next == IF state = "extracting" THEN "history" ELSE state
    IN
    /\ n \in 1..Len(pending)
    /\ pending' = RemoveAt(pending, n)
    /\ UNCHANGED <<sessionVars, history, globalFlaggedIds, selectedAttempt, now>>
    /\ IF ~Mounted
       THEN UNCHANGED <<state, isPaused, tickTasks, parsedCache, cacheKeys,
                            activeQuizId>>
       ELSE IF ~outcome.ok
       THEN /\ Render("idle", isPaused)
            /\ UNCHANGED <<parsedCache, cacheKeys, activeQuizId>>
       ELSE IF call.kind = "select"
       THEN /\ parsedCache' = Put(parsedCache, call.id, [data EXCEPT !.id = call.id])
            /\ cacheKeys' = InsertKey(cacheKeys, call.id)
            /\ Render(next, isPaused)
            /\ UNCHANGED activeQuizId
       ELSE /\ parsedCache' = Put(parsedCache, data.id, data)
            /\ cacheKeys' = InsertKey(cacheKeys, data.id)
            /\ activeQuizId' = data.id
            /\ Render(next, isPaused)

\* The continuation of a handler after its await, for the n-th pending call
\* and the outcome of that call.
ResolveExtraction(n, outcome) ==
    LET call == pending[n]
        data == parseGeminiResponse(outcome.data)
    IN
    /\ n \in 1..Len(pending)
    /\ pending' = RemoveAt(pending, n)
    /\ UNCHANGED <<sessionVars, history, globalFlaggedIds, selectedAttempt, now>>
    /\ IF ~Mounted
       THEN UNCHANGED <<state, isPaused, tickTasks, parsedCache, cacheKeys,
                            activeQuizId>>
       ELSE IF ~outcome.ok
       THEN /\ Render("idle", isPaused)
            /\ UNCHANGED <<parsedCache, cacheKeys, activeQuizId>>
       ELSE IF call.kind = "select"
       THEN /\ parsedCache' = Put(parsedCache, call.id, [data EXCEPT !.id = call.id])
            /\ cacheKeys' = InsertKey(cacheKeys, call.id)
            /\ Render("history", isPaused)
            /\ UNCHANGED activeQuizId
       ELSE /\ parsedCache' = Put(parsedCache, data.id, data)
            /\ cacheKeys' = InsertKey(cacheKeys, data.id)
            /\ activeQuizId' = data.id
            /\ Render("history", isPaused)

\* The option shuffles of the questions qs: one shuffled option list each.
OptionShuffles(qs) ==
    {os \in [1..Len(qs) -> UNION {shuffleArray(qs[n].options) : n \in 1..Len(qs)}] :
        \A n \in 1..Len(qs) : os[n] \in shuffleArray(qs[n].options)}

\* Every value of newQuestions prepareQuiz can compute.
PreparedQuestions(questions) ==
    UNION {{[n \in 1..Len(qs) |-> [qs[n] EXCEPT !.options = os[n]]] :
                os \in OptionShuffles(qs)} : qs \in shuffleArray(questions)}

\* A preparation that keeps the selections of the session before.
prepareQuizKeepingSelections(questions) ==
    /\ \E newQuestions \in PreparedQuestions(questions) :
          shuffledQuestions' = newQuestions
    /\ currentIdx' = 0
    /\ sessionFlags' = <<>>
    /\ userAnswers' = <<>>
    /\ timerSeconds' = 0
    /\ Render("playing", FALSE)
    /\ UNCHANGED <<storeVars, activeQuizId, selectedAttempt, pending, now,
                   selectedOptions>>

\* A preparation that leaves isPaused as the session before left it.
prepareQuizKeepingPause(questions) ==
    /\ \E newQuestions \in PreparedQuestions(questions) :
          shuffledQuestions' = newQuestions
    /\ currentIdx' = 0
    /\ selectedOptions' = EmptyMap
    /\ sessionFlags' = <<>>
    /\ userAnswers' = <<>>
    /\ timerSeconds' = 0
    /\ Render("playing", isPaused)
    /\ UNCHANGED <<storeVars, activeQuizId, selectedAttempt, pending, now>>

prepareQuiz(questions) ==
    /\ \E newQuestions \in PreparedQuestions(questions) :
          shuffledQuestions' = newQuestions
    /\ currentIdx' = 0
    /\ selectedOptions' = EmptyMap
    /\ sessionFlags' = <<>>
    /\ userAnswers' = <<>>
    /\ timerSeconds' = 0
    /\ Render("playing", FALSE)
    /\ UNCHANGED <<storeVars, activeQuizId, selectedAttempt, pending, now>>

\* "Practice These Mistakes" of one group of the mistake bank.
PracticeMistakes(qId) ==
    /\ state = "idle"
    /\ qId \in DOMAIN failedQuestionsGrouped
    /\ prepareQuiz(failedQuestionsGrouped[qId])

\* "Practice All Flagged".
PracticeFlagged ==
    /\ state = "idle"
    /\ Len(flaggedQuestions) > 0
    /\ prepareQuiz(flaggedQuestions)

\* "Start Exam" of the history screen.
StartExam ==
    /\ state = "history"
    /\ activeQuizId # Null
    /\ prepareQuiz(getQuizData(activeQuizId).questions)

\* toggleFlag(id)
toggleFlag(id) ==
    /\ globalFlaggedIds' = ToggleMember(globalFlaggedIds, id)
    /\ sessionFlags' = ToggleMember(sessionFlags, id)
    /\ Len(globalFlaggedIds') <= budget.flags
    /\ Len(sessionFlags') <= budget.flags
    /\ UNCHANGED <<state, isPaused, tickTasks, history, parsedCache, cacheKeys,
                   activeQuizId, shuffledQuestions, currentIdx, selectedOptions,
                   userAnswers, timerSeconds, selectedAttempt, pending, now>>

\* The flag button of a card of the flagged tab.
ToggleFlagInHub(id) ==
    /\ state = "idle"
    /\ \E n \in 1..Len(flaggedQuestions) : flaggedQuestions[n].id = id
    /\ toggleFlag(id)

\* The Marker button of the current question.  The pause overlay lies over
\* it and stops a pointer click, but it is a button without a disabled or
\* isPaused test: it stays in the tab order and the keyboard activates it.
ToggleFlagInSession ==
    /\ state = "playing"
    /\ toggleFlag(shuffledQuestions[currentIdx + 1].id)

\* The answers the audit list shows, and the flag button of one of its
\* rows: a row is rendered when its question is found in the active quiz.
AuditAnswers == IF state = "review" THEN
                    (IF selectedAttempt = NoAttempt THEN <<>> ELSE selectedAttempt.answers)
                ELSE userAnswers

ToggleFlagInAudit(id) ==
    /\ state \in {"completed", "review"}
    /\ \E n \in 1..Len(AuditAnswers) : AuditAnswers[n].questionId = id
    /\ \E n \in 1..Len(getQuizData(activeQuizId).questions) :
          getQuizData(activeQuizId).questions[n].id = id
    /\ toggleFlag(id)

\* The back arrow of the history screen.
BackToHub ==
    /\ state = "history"
    /\ activeQuizId # Null
    /\ UNCHANGED <<sessionVars, storeVars, activeQuizId, selectedAttempt,
                   pending, now>>
    /\ Render("idle", isPaused)

\* A row of the history screen: setSelectedAttempt(att); setState('review').
SelectAttempt(n) ==
    /\ state = "history"
    /\ activeQuizId \in DOMAIN history
    /\ n \in 1..Len(history[activeQuizId])
    /\ selectedAttempt' = history[activeQuizId][n]
    /\ UNCHANGED <<sessionVars, storeVars, activeQuizId, pending, now>>
    /\ Render("review", isPaused)

\* "Back to History" of the review screen.
BackToHistory ==
    /\ state = "review"
    /\ UNCHANGED <<sessionVars, storeVars, activeQuizId, selectedAttempt,
                   pending, now>>
    /\ Render("history", isPaused)

\* The onClick of an option row of the current question.  It does not test
\* isPaused: what the pause puts in its way is the overlay drawn over the
\* rows, which takes the pointer clicks and leaves the handler in place for
\* a click delivered to the row itself.
SelectOption(option) ==
    /\ state = "playing"
    /\ option \in Range(shuffledQuestions[currentIdx + 1].options)
    /\ selectedOptions' =
          Put(selectedOptions, shuffledQuestions[currentIdx + 1].id, option)
    /\ UNCHANGED <<state, isPaused, tickTasks, storeVars, activeQuizId,
                   shuffledQuestions, currentIdx, sessionFlags, userAnswers,
                   timerSeconds, selectedAttempt, pending, now>>

Max(a, b) == IF a >= b THEN a ELSE b
Min(a, b) == IF a <= b THEN a ELSE b

SetCurrentIdx(idx) ==
    /\ currentIdx' = idx
    /\ UNCHANGED <<shuffledQuestions, selectedOptions, sessionFlags, userAnswers,
                   timerSeconds, storeVars, activeQuizId, selectedAttempt,
                   pending, now>>
    /\ Render(state, isPaused)

\* Previous (disabled at index 0) and Forward (shown before the last
\* question): buttons the keyboard activates under the pause overlay too.
Previous ==
    /\ state = "playing"
    /\ currentIdx # 0
    /\ SetCurrentIdx(Max(0, currentIdx - 1))

Forward ==
    /\ state = "playing"
    /\ currentIdx # Len(shuffledQuestions) - 1
    /\ SetCurrentIdx(Min(Len(shuffledQuestions) - 1, currentIdx + 1))

\* A button of the question map.
JumpTo(idx) ==
    /\ state = "playing"
    /\ idx \in 0..Len(shuffledQuestions) - 1
    /\ SetCurrentIdx(idx)

\* The pause button of the header, and "Resume Flow" of the overlay.
TogglePause ==
    /\ state = "playing"
    /\ budget.pause
    /\ UNCHANGED <<sessionVars, storeVars, activeQuizId, selectedAttempt,
                   pending, now>>
    /\ Render(state, ~isPaused)

Resume ==
    /\ state = "playing"
    /\ isPaused
    /\ UNCHANGED <<sessionVars, storeVars, activeQuizId, selectedAttempt,
                   pending, now>>
    /\ Render(state, FALSE)

\* Terminate: confirm("Exit session?") && setState('idle')
Terminate(confirmed) ==
    /\ state = "playing"
    /\ UNCHANGED <<sessionVars, storeVars, activeQuizId, selectedAttempt,
                   pending, now>>
    /\ Render(IF confirmed THEN "idle" ELSE state, isPaused)

\* A submission that goes on whatever the confirm dialog answers.
handleSubmitIgnoringConfirm(isEarly, confirmed) ==
    LET attempt == AttemptOf(shuffledQuestions, selectedOptions, sessionFlags,
                             timerSeconds, now)
    IN  /\ now < budget.attempts
        /\ now' = now + 1
        /\ history' = IF activeQuizId # Null /\ activeQuizId # ""
                      THEN AppendAttempt(history, activeQuizId, attempt)
                      ELSE history
        /\ userAnswers' = finalAnswers(shuffledQuestions, selectedOptions)
        /\ UNCHANGED <<shuffledQuestions, currentIdx, selectedOptions,
                       sessionFlags, timerSeconds, parsedCache, cacheKeys,
                       globalFlaggedIds,
                       activeQuizId, selectedAttempt, pending>>
        /\ Render("completed", isPaused)

\* handleSubmit(isEarly), with the answer given to its confirm dialog.
handleSubmit(isEarly, confirmed) ==
    LET attempt == AttemptOf(shuffledQuestions, selectedOptions, sessionFlags,
                             timerSeconds, now)
    IN  IF isEarly /\ ~confirmed
        THEN UNCHANGED appVars
        ELSE /\ now < budget.attempts
             /\ now' = now + 1
             /\ history' = IF activeQuizId # Null /\ activeQuizId # ""
                           THEN AppendAttempt(history, activeQuizId, attempt)
                           ELSE history
             /\ userAnswers' = finalAnswers(shuffledQuestions, selectedOptions)
             /\ UNCHANGED <<shuffledQuestions, currentIdx, selectedOptions,
                            sessionFlags, timerSeconds, parsedCache, cacheKeys,
                       globalFlaggedIds,
                            activeQuizId, selectedAttempt, pending>>
             /\ Render("completed", isPaused)

\* Finalize, shown on the last question; a button the keyboard activates
\* under the pause overlay too.
Finalize ==
    /\ state = "playing"
    /\ currentIdx = Len(shuffledQuestions) - 1
    /\ handleSubmit(FALSE, FALSE)

\* "Early Submit" of the question card; a button the keyboard activates
\* under the pause overlay too.
EarlySubmit(confirmed) ==
    /\ state = "playing"
    /\ handleSubmit(TRUE, confirmed)

\* "Submit Quiz Early" of the question map.
SubmitQuizEarly(confirmed) ==
    /\ state = "playing"
    /\ handleSubmit(TRUE, confirmed)

\* "Return to Hub" and "View All Attempts" of the completed screen.
ReturnToHub ==
    /\ state = "completed"
    /\ UNCHANGED <<sessionVars, storeVars, activeQuizId, selectedAttempt,
                   pending, now>>
    /\ Render("idle", isPaused)

ViewAllAttempts ==
    /\ state = "completed"
    /\ activeQuizId # Null
    /\ UNCHANGED <<sessionVars, storeVars, activeQuizId, selectedAttempt,
                   pending, now>>
    /\ Render("history", isPaused)

\* One callback of a live interval: setTimerSeconds(s => s + 1).
Tick ==
    /\ tickTasks > 0
    /\ timerSeconds < budget.time
    /\ timerSeconds' = timerSeconds + 1
    /\ UNCHANGED <<state, isPaused, tickTasks, storeVars, activeQuizId,
                   shuffledQuestions, currentIdx, selectedOptions, sessionFlags,
                   userAnswers, selectedAttempt, pending, now>>

(***************************************************************************)
(* The application.                                                        *)
(***************************************************************************)
\* Every string that is an option of some question.
OptionStrings ==
    UNION {Range(RawData[i].questions[n].options) :
            <<i, n>> \in {<<i, n>> \in (1..Len(RawData)) \X (1..MaxLen) :
                            n <= Len(RawData[i].questions)}}

\* The runs explored.  Each bounds what the environment does in one run:
\* the submissions, the seconds a session lasts and whether the user
\* pauses, the extraction calls in flight together, the ids flagged
\* together, and the responses (indices of RawData) the extraction call
\* gives.
Budgets ==
    { [attempts |-> MaxAttempts, time |-> 0, pause |-> FALSE, pending |-> 1,
       flags |-> 0, quizzes |-> {2}],
      [attempts |-> 1, time |-> MaxTime, pause |-> TRUE, pending |-> 1,
       flags |-> 0, quizzes |-> {2}],
      [attempts |-> 1, time |-> 0, pause |-> FALSE, pending |-> MaxPending,
       flags |-> 0, quizzes |-> {1, 2}],
      [attempts |-> 1, time |-> 0, pause |-> TRUE, pending |-> 1,
       flags |-> MaxFlags, quizzes |-> {2}],
      [attempts |-> 1, time |-> 0, pause |-> FALSE, pending |-> 1,
       flags |-> 0, quizzes |-> {3}],
      [attempts |-> 1, time |-> 0, pause |-> FALSE, pending |-> 1,
       flags |-> 0, quizzes |-> {5}] }

\* The component after construction and the load effect with empty storage.
AppStart ==
    /\ state = "idle"
    /\ history = EmptyMap
    /\ parsedCache = EmptyMap
    /\ cacheKeys = <<>>
    /\ globalFlaggedIds = <<>>
    /\ activeQuizId = Null
    /\ shuffledQuestions = <<>>
    /\ currentIdx = 0
    /\ selectedOptions = EmptyMap
    /\ sessionFlags = <<>>
    /\ userAnswers = <<>>
    /\ timerSeconds = 0
    /\ isPaused = FALSE
    /\ selectedAttempt = NoAttempt
    /\ pending = <<>>
    /\ tickTasks = 0
    /\ now = 0

\* No stand-alone run is under way.
NoShuffleRun ==
    /\ array = <<>>
    /\ newArr = <<>>
    /\ loopI = 0
    /\ shufflePc = "call"

NoSigRun ==
    /\ sigInput = <<>>
    /\ sigPos = 0

NoFlagRun ==
    /\ flagId = Null
    /\ flagStart = <<>>
    /\ flagCalls = 0

\* What localStorage.getItem gives for a key: null when it was never
\* written, or the text stored, which is empty, or a text JSON.parse throws
\* on, or the JSON text of a value.
Absent == [kind |-> "absent"]
EmptyText == [kind |-> "empty"]
Corrupt == [kind |-> "corrupt"]
Stored(value) == [kind |-> "json", value |-> value]

\* if (saved) setX(JSON.parse(saved)): whether the line runs JSON.parse, and
\* whether JSON.parse throws.
Parsed(saved) == saved.kind \in {"corrupt", "json"}
Throws(saved) == saved.kind = "corrupt"

\* Nothing is stored and the load effect has run.
NothingStored == [history |-> Absent, cache |-> Absent, flags |-> Absent]

NoLoadRun ==
    /\ storage = NothingStored
    /\ loaded = TRUE

NoAccuracyRun ==
    /\ accScore = 0
    /\ accTotal = 0
    /\ accShown = 0
    /\ accPc = "none"

NoOtherRun == NoFlagRun /\ NoLoadRun /\ NoAccuracyRun

\* What an earlier visit left in localStorage.  The visit opened the
\* library card, which cached the extracted quiz under the card's id (the
\* save effect of the cache), and the save effect of the flags wrote them.
LibraryQuiz == [parseGeminiResponse(RawData[2]) EXCEPT !.id = LibraryIds[1]]

OpenedVisit ==
    [history |-> Absent,
     cache |-> [kind |-> "json", value |-> Put(EmptyMap, LibraryQuiz.id, LibraryQuiz),
                keys |-> <<LibraryQuiz.id>>],
     flags |-> Stored(<<>>)]

\* The visit also played the quiz: it flagged the first question, selected
\* an option that is not its correct answer and submitted (handleSubmit
\* wrote the history), at a time before this visit's clock starts.
PlayedAttempt ==
    LET q == LibraryQuiz.questions[1]
        wrong == CHOOSE o \in Range(q.options) : o # "" /\ o # q.correctAnswer
    IN  AttemptOf(LibraryQuiz.questions, Put(EmptyMap, q.id, wrong), <<q.id>>, 0, -1)

PlayedVisit ==
    [OpenedVisit EXCEPT
        !.history = Stored(Put(EmptyMap, LibraryQuiz.id, <<PlayedAttempt>>)),
        !.flags = Stored(<<LibraryQuiz.questions[1].id>>)]

\* The runs explored: the first visit under every budget, and later visits
\* on what an earlier visit stored.
Runs ==
    {[budget |-> b, stored |-> NothingStored] : b \in Budgets}
        \cup {[budget |-> [attempts |-> 1, time |-> 0, pause |-> FALSE, pending |-> 1,
                           flags |-> 0, quizzes |-> {2}],
                stored |-> OpenedVisit],
               [budget |-> [attempts |-> 1, time |-> 0, pause |-> FALSE, pending |-> 1,
                           flags |-> MaxFlags, quizzes |-> {2}],
                stored |-> PlayedVisit]}

\* The component after construction and the load effect on readable
\* storage: if (saved) setX(JSON.parse(saved)) for each of the three keys.
AppStartOn(saved) ==
    /\ state = "idle"
    /\ history = IF Parsed(saved.history) THEN saved.history.value ELSE EmptyMap
    /\ parsedCache = IF Parsed(saved.cache) THEN saved.cache.value ELSE EmptyMap
    /\ cacheKeys = IF Parsed(saved.cache) THEN saved.cache.keys ELSE <<>>
    /\ globalFlaggedIds = IF Parsed(saved.flags) THEN Dedupe(saved.flags.value) ELSE <<>>
    /\ activeQuizId = Null
    /\ shuffledQuestions = <<>>
    /\ currentIdx = 0
    /\ selectedOptions = EmptyMap
    /\ sessionFlags = <<>>
    /\ userAnswers = <<>>
    /\ timerSeconds = 0
    /\ isPaused = FALSE
    /\ selectedAttempt = NoAttempt
    /\ pending = <<>>
    /\ tickTasks = 0
    /\ now = 0

Init ==
    /\ \E run \in Runs :
          /\ budget = run.budget
          /\ storage = run.stored
          /\ AppStartOn(run.stored)
    /\ loaded = TRUE
    /\ NoShuffleRun
    /\ NoSigRun
    /\ NoFlagRun
    /\ NoAccuracyRun

\* The rows of the history screen: (history[activeQuizId] || []).length
HistoryRows == IF activeQuizId \in DOMAIN history THEN Len(history[activeQuizId]) ELSE 0

\* What a step of the application leaves alone.
AppFrame == UNCHANGED <<budget, shuffleVars, sigVars, flagVars, loadVars, accVars>>

Next ==
    \/ LogoClick /\ AppFrame
    \/ \E n \in 1..Len(LibraryIds) : handleSelectQuiz(LibraryIds[n]) /\ AppFrame
    \/ StartFileImport /\ AppFrame
    \/ StartCsvImport /\ AppFrame
    \/ BlankCsvImport /\ AppFrame
    \/ \E n \in 1..Len(pending), outcome \in Outcomes(budget.quizzes) :
          ResolveExtraction(n, outcome) /\ AppFrame
    \/ \E qId \in DOMAIN history : PracticeMistakes(qId) /\ AppFrame
    \/ PracticeFlagged /\ AppFrame
    \/ StartExam /\ AppFrame
    \/ \E id \in Range(globalFlaggedIds) : ToggleFlagInHub(id) /\ AppFrame
    \/ ToggleFlagInSession /\ AppFrame
    \/ \E n \in 1..Len(AuditAnswers) :
          ToggleFlagInAudit(AuditAnswers[n].questionId) /\ AppFrame
    \/ BackToHub /\ AppFrame
    \/ \E n \in 1..HistoryRows : SelectAttempt(n) /\ AppFrame
    \/ BackToHistory /\ AppFrame
    \/ \E option \in OptionStrings : SelectOption(option) /\ AppFrame
    \/ Previous /\ AppFrame
    \/ Forward /\ AppFrame
    \/ \E idx \in 0..Len(shuffledQuestions) - 1 : JumpTo(idx) /\ AppFrame
    \/ TogglePause /\ AppFrame
    \/ Resume /\ AppFrame
    \/ \E confirmed \in BOOLEAN : Terminate(confirmed) /\ AppFrame
    \/ Finalize /\ AppFrame
    \/ \E confirmed \in BOOLEAN : EarlySubmit(confirmed) /\ AppFrame
    \/ \E confirmed \in BOOLEAN : SubmitQuizEarly(confirmed) /\ AppFrame
    \/ ReturnToHub /\ AppFrame
    \/ ViewAllAttempts /\ AppFrame
    \/ Tick /\ AppFrame

Spec == Init /\ [][Next]_vars

(***************************************************************************)
(* Submissions of one prepared session of up to MaxLen questions: the      *)
(* component is taken up where a cached quiz is being played, with any     *)
(* selections made, and the session is submitted and looked at.            *)
(***************************************************************************)
\* The response whose quiz is played: three questions of two options each.
ExamData ==
    [title |-> "T5",
     questions |->
        << [question |-> "Qa", options |-> <<"Paris", "Rome">>, correctAnswer |-> "Paris"],
           [question |-> "Qb", options |-> <<"4", "5">>, correctAnswer |-> "4"],
           [question |-> "Q", options |-> <<"Red", "Blue">>, correctAnswer |-> "Red"] >>]

\* The response cut to its first n questions.
ExamResponse(n) == [ExamData EXCEPT !.questions = SubSeq(ExamData.questions, 1, n)]

\* A response whose question has an option, the right one, that reads
\* "Not Answered".
TrapData ==
    [title |-> "T6",
     questions |->
        << [question |-> "\"q\n", options |-> <<NotAnswered, "X">>,
            correctAnswer |-> NotAnswered] >>]

\* The responses whose quiz is played.
ExamResponses ==
    {ExamResponse(Min(n, Len(ExamData.questions))) : n \in 1..MaxLen} \cup {TrapData}

\* Every selectedOptions the option buttons can build for the questions.
Selections(questions) ==
    UNION {[{questions[n].id : n \in answered} ->
                UNION {Range(questions[n].options) : n \in answered}] :
            answered \in SUBSET (1..Len(questions))}

ValidSelections(questions) ==
    {sel \in Selections(questions) :
        \A n \in 1..Len(questions) :
            questions[n].id \in DOMAIN sel =>
                sel[questions[n].id] \in Range(questions[n].options)}

SubmitBudget ==
    [attempts |-> 1, time |-> 0, pause |-> FALSE, pending |-> 0, flags |-> 0,
     quizzes |-> {}]

SubmitInit ==
    /\ \E response \in ExamResponses :
          LET data == parseGeminiResponse(response)
          IN  /\ parsedCache = Put(EmptyMap, data.id, data)
              /\ cacheKeys = <<data.id>>
              /\ activeQuizId = data.id
              /\ shuffledQuestions \in PreparedQuestions(data.questions)
              /\ currentIdx \in 0..Len(data.questions) - 1
              /\ selectedOptions \in ValidSelections(data.questions)
    /\ state = "playing"
    /\ history = EmptyMap
    /\ globalFlaggedIds = <<>>
    /\ sessionFlags = <<>>
    /\ userAnswers = <<>>
    /\ timerSeconds = 0
    /\ isPaused = FALSE
    /\ selectedAttempt = NoAttempt
    /\ pending = <<>>
    /\ tickTasks = 1
    /\ now = 0
    /\ budget = SubmitBudget
    /\ NoShuffleRun
    /\ NoSigRun
    /\ NoOtherRun

SubmitNext ==
    \/ Finalize /\ AppFrame
    \/ \E confirmed \in BOOLEAN : EarlySubmit(confirmed) /\ AppFrame
    \/ \E confirmed \in BOOLEAN : SubmitQuizEarly(confirmed) /\ AppFrame
    \/ ViewAllAttempts /\ AppFrame
    \/ \E n \in 1..now : SelectAttempt(n) /\ AppFrame

SubmitSpec == SubmitInit /\ [][SubmitNext]_vars

(***************************************************************************)
(* Stand-alone runs of shuffleArray, one loop round per step.              *)
(***************************************************************************)
\* The elements of the arrays shuffled.
Elements == {"a", "b", "c"}

ShuffleInit ==
    /\ AppStart
    /\ budget = SubmitBudget
    /\ NoSigRun
    /\ NoOtherRun
    /\ array \in SeqsUpTo(Elements, MaxLen)
    /\ newArr = <<>>
    /\ loopI = 0
    /\ shufflePc = "call"

\* const newArr = [...array]; let i = newArr.length - 1
ShuffleCall ==
    /\ shufflePc = "call"
    /\ newArr' = array
    /\ loopI' = Len(array) - 1
    /\ shufflePc' = "loop"
    /\ UNCHANGED array

\* One round of the loop: j is drawn, newArr[i] and newArr[j] change places.
ShuffleRound ==
    /\ shufflePc = "loop"
    /\ loopI > 0
    /\ \E j \in RandomIndex(loopI) : newArr' = SwapAt(newArr, loopI, j)
    /\ loopI' = loopI - 1
    /\ UNCHANGED <<array, shufflePc>>

\* return newArr
ShuffleReturn ==
    /\ shufflePc = "loop"
    /\ ~(loopI > 0)
    /\ shufflePc' = "done"
    /\ UNCHANGED <<array, newArr, loopI>>

ShuffleFrame ==
    UNCHANGED <<appVars, budget, sigVars, flagVars, loadVars, accVars>>

ShuffleNext ==
    \/ ShuffleCall /\ ShuffleFrame
    \/ ShuffleRound /\ ShuffleFrame
    \/ ShuffleReturn /\ ShuffleFrame

ShuffleSpec == ShuffleInit /\ [][ShuffleNext]_vars

(***************************************************************************)
(* Stand-alone runs of two imports in a row into an empty cache.           *)
(***************************************************************************)
\* A response with the given question texts; its title, options and option
\* order depend on which of the two imports it is.
ResponseOf(texts, which) ==
    [title |-> IF which = 1 THEN "T1" ELSE "T2",
     questions |->
        [n \in 1..Len(texts) |->
            [question |-> texts[n],
             options |-> IF which = 1 THEN <<"", "A">> ELSE <<"A", "B", "">>,
             correctAnswer |-> IF which = 1 THEN "" ELSE "A"]]]

SigBudget == [SubmitBudget EXCEPT !.pending = 1]

\* The question texts of the second response: those of the first in any
\* order (the document imported again), or those of another document of at
\* most one question.
SecondTexts(first) == Perms(first) \cup SeqsUpTo(Texts, 1)

SigInit ==
    /\ AppStart
    /\ budget = SigBudget
    /\ NoShuffleRun
    /\ NoOtherRun
    /\ \E first \in SeqsUpTo(Texts, MaxLen) :
          \E second \in SecondTexts(first) :
              sigInput = <<ResponseOf(first, 1), ResponseOf(second, 2)>>
    /\ sigPos = 0

\* An import handler up to its await, for the next response of the run: a
\* file is chosen, or text is pasted and the Ingest button clicked.
SigStartFile ==
    /\ sigPos < Len(sigInput)
    /\ StartFileImport
    /\ UNCHANGED sigVars

SigStartCsv ==
    /\ sigPos < Len(sigInput)
    /\ StartCsvImport
    /\ UNCHANGED sigVars

\* The import handler after its await, the call having returned the next
\* response of the run:
\* setParsedCache(prev => ({ ...prev, [data.id]: data }));
\* setActiveQuizId(data.id); setState('history')
SigImport ==
    /\ sigPos < Len(sigInput)
    /\ ResolveExtraction(1, [ok |-> TRUE, data |-> sigInput[sigPos + 1]])
    /\ sigPos' = sigPos + 1
    /\ UNCHANGED sigInput

\* The way back to the hub, where the import controls are.
SigBack ==
    /\ \/ LogoClick
       \/ BackToHub
    /\ UNCHANGED sigVars

SigFrame == UNCHANGED <<budget, shuffleVars, flagVars, loadVars, accVars>>

SigNext ==
    \/ SigStartFile /\ SigFrame
    \/ SigStartCsv /\ SigFrame
    \/ SigImport /\ SigFrame
    \/ SigBack /\ SigFrame

SigSpec == SigInit /\ [][SigNext]_vars

(***************************************************************************)
(* Stand-alone runs of two calls of toggleFlag with one id, on any pair of *)
(* flag sets.                                                              *)
(***************************************************************************)
\* The question ids toggled and flagged.
FlagIds == {"q1", "q2", "q3"}

\* Every Set over S, as the sequences of its elements in insertion order.
SetsOver(S) ==
    {q \in SeqsUpTo(S, Cardinality(S)) : Cardinality(Range(q)) = Len(q)}

FlagBudget == [SubmitBudget EXCEPT !.flags = Cardinality(FlagIds)]

FlagInit ==
    /\ state = "idle"
    /\ history = EmptyMap
    /\ parsedCache = EmptyMap
    /\ cacheKeys = <<>>
    /\ globalFlaggedIds \in SetsOver(FlagIds)
    /\ sessionFlags \in SetsOver(FlagIds)
    /\ activeQuizId = Null
    /\ shuffledQuestions = <<>>
    /\ currentIdx = 0
    /\ selectedOptions = EmptyMap
    /\ userAnswers = <<>>
    /\ timerSeconds = 0
    /\ isPaused = FALSE
    /\ selectedAttempt = NoAttempt
    /\ pending = <<>>
    /\ tickTasks = 0
    /\ now = 0
    /\ budget = FlagBudget
    /\ NoShuffleRun
    /\ NoSigRun
    /\ NoLoadRun
    /\ NoAccuracyRun
    /\ flagId \in FlagIds
    /\ flagStart = [global |-> globalFlaggedIds, session |-> sessionFlags]
    /\ flagCalls = 0

\* One call toggleFlag(flagId).
FlagToggle ==
    /\ flagCalls < 2
    /\ toggleFlag(flagId)
    /\ flagCalls' = flagCalls + 1
    /\ UNCHANGED <<flagId, flagStart>>

FlagFrame == UNCHANGED <<budget, shuffleVars, sigVars, loadVars, accVars>>

FlagNext == FlagToggle /\ FlagFrame

FlagSpec == FlagInit /\ [][FlagNext]_vars

(***************************************************************************)
(* Start-up: the load effect on whatever localStorage holds.               *)
(***************************************************************************)
\* A quiz and an attempt on it, as an earlier visit stored them.
StoredQuiz == parseGeminiResponse(RawData[2])

StoredAttempt == AttemptOf(StoredQuiz.questions, EmptyMap, <<>>, 0, 0)

StoredHistories ==
    {Stored(EmptyMap), Stored(Put(EmptyMap, StoredQuiz.id, <<StoredAttempt>>))}

\* The stored cache texts, each with its keys in the order of the text.
StoredCaches ==
    {[kind |-> "json", value |-> EmptyMap, keys |-> <<>>],
     [kind |-> "json", value |-> Put(EmptyMap, StoredQuiz.id, StoredQuiz),
      keys |-> <<StoredQuiz.id>>]}

StoredFlagArrays ==
    {Stored(<<>>), Stored(<<StoredQuiz.questions[1].id>>),
     Stored(<<StoredQuiz.questions[1].id, StoredQuiz.questions[1].id>>)}

Unreadable == {Absent, EmptyText, Corrupt}

LoadInit ==
    /\ AppStart
    /\ budget = SubmitBudget
    /\ NoShuffleRun
    /\ NoSigRun
    /\ NoFlagRun
    /\ NoAccuracyRun
    /\ storage \in [history : Unreadable \cup StoredHistories,
                    cache : Unreadable \cup StoredCaches,
                    flags : Unreadable \cup StoredFlagArrays]
    /\ loaded = FALSE

\* The load effect: the three lines run in order up to the first that
\* throws, and an error thrown by an effect unmounts the tree.
LoadEffect ==
    LET historyThrows == Throws(storage.history)
        cacheThrows == ~historyThrows /\ Throws(storage.cache)
        flagsThrow == ~historyThrows /\ ~cacheThrows /\ Throws(storage.flags)
    IN  /\ ~loaded
        /\ loaded' = TRUE
        /\ history' = IF Parsed(storage.history) /\ ~historyThrows
                      THEN storage.history.value ELSE history
        /\ parsedCache' = IF ~historyThrows /\ Parsed(storage.cache) /\ ~cacheThrows
                          THEN storage.cache.value ELSE parsedCache
        /\ cacheKeys' = IF ~historyThrows /\ Parsed(storage.cache) /\ ~cacheThrows
                        THEN storage.cache.keys ELSE cacheKeys
        /\ globalFlaggedIds' =
              IF ~historyThrows /\ ~cacheThrows /\ Parsed(storage.flags) /\ ~flagsThrow
              THEN Dedupe(storage.flags.value) ELSE globalFlaggedIds
        /\ state' = IF historyThrows \/ cacheThrows \/ flagsThrow
                    THEN "unmounted" ELSE state
        /\ UNCHANGED <<sessionVars, activeQuizId, isPaused, tickTasks,
                       selectedAttempt, pending, now, storage>>

LoadFrame == UNCHANGED <<budget, shuffleVars, sigVars, flagVars, accVars>>

LoadNext == LoadEffect /\ LoadFrame

LoadSpec == LoadInit /\ [][LoadNext]_vars

(***************************************************************************)
(* Stand-alone renders of the percentage of a history row, for attempts of *)
(* up to MaxTotal questions, next to the submissions of a prepared         *)
(* session.                                                                *)
(***************************************************************************)
AccuracyInit ==
    /\ AppStart
    /\ budget = SubmitBudget
    /\ NoShuffleRun
    /\ NoSigRun
    /\ NoFlagRun
    /\ NoLoadRun
    /\ accTotal \in 1..MaxTotal
    /\ accScore \in 0..accTotal
    /\ accShown = 0
    /\ accPc = "call"

\* {Math.round((att.score/att.totalQuestions)*100)}%
RenderRow ==
    /\ accPc = "call"
    /\ accShown' = RowAccuracy([score |-> accScore, totalQuestions |-> accTotal])
    /\ accPc' = "done"
    /\ UNCHANGED <<accScore, accTotal>>

AccuracyFrame ==
    UNCHANGED <<appVars, budget, shuffleVars, sigVars, flagVars, loadVars>>

AccuracyNext == RenderRow /\ AccuracyFrame

ScoreInit == SubmitInit \/ AccuracyInit

ScoreNext == SubmitNext \/ AccuracyNext

ScoreSpec == ScoreInit /\ [][ScoreNext]_vars

(***************************************************************************)
(* The properties.                                                         *)
(***************************************************************************)
QuestionIds(questions) == {questions[n].id : n \in 1..Len(questions)}

\* The last attempt stored for the active quiz.
LastAttempt == history[activeQuizId][Len(history[activeQuizId])]

\* The UserAnswer the specification asks for: the selection when there is
\* one (?? keeps the empty string), and isCorrect read off what is recorded.
SpecifiedAnswer(q, sel) ==
    LET selectedOption == IF q.id \in DOMAIN sel THEN sel[q.id] ELSE NotAnswered
    IN  [questionId |-> q.id,
         selectedOption |-> selectedOption,
         isCorrect |-> selectedOption = q.correctAnswer]

\* C1: after a submission there is one UserAnswer per question of
\* shuffledQuestions, in question order, whose selectedOption is the
\* selection made for the question when there is one (the empty string
\* included) and "Not Answered" otherwise, and whose isCorrect says whether
\* that recorded selectedOption is the question's correctAnswer.
C1_AnswersFollowSelections ==
    state = "completed" =>
        userAnswers = [n \in 1..Len(shuffledQuestions) |->
                          SpecifiedAnswer(shuffledQuestions[n], selectedOptions)]

\* The empty-string option was selected and the session submitted.
C1_EmptyOptionSubmitted ==
    /\ state = "completed"
    /\ \E n \in 1..Len(shuffledQuestions) :
          /\ shuffledQuestions[n].id \in DOMAIN selectedOptions
          /\ selectedOptions[shuffledQuestions[n].id] = ""
          /\ userAnswers[n].selectedOption = NotAnswered
          /\ userAnswers[n].isCorrect

\* C2: every submission (a step from playing to completed) appends one
\* attempt to the history entry of the quiz whose questions were played, a
\* cached quiz that holds every question of the session, and changes no
\* other entry; the attempt has answers.length = totalQuestions =
\* len(shuffledQuestions).
C2_AttemptUnderPlayedQuiz ==
    [][(state = "playing" /\ state' = "completed") =>
          \E id \in DOMAIN parsedCache :
              /\ QuestionIds(shuffledQuestions)
                    \subseteq QuestionIds(parsedCache[id].questions)
              /\ DOMAIN history' = DOMAIN history \cup {id}
              /\ \A k \in DOMAIN history \ {id} : history'[k] = history[k]
              /\ Len(history'[id]) =
                    1 + (IF id \in DOMAIN history THEN Len(history[id]) ELSE 0)
              /\ id \in DOMAIN history => IsPrefix(history[id], history'[id])
              /\ LET att == history'[id][Len(history'[id])]
                 IN  /\ Len(att.answers) = att.totalQuestions
                     /\ att.totalQuestions = Len(shuffledQuestions)]_vars

\* A practice session of one quiz was submitted while another quiz was the
\* active one.
C2_RecordedUnderOtherQuiz ==
    /\ state = "completed"
    /\ activeQuizId \in DOMAIN history
    /\ LastAttempt.answers = userAnswers
    /\ userAnswers # <<>>
    /\ getQuizData(activeQuizId).questions = <<>>

\* C3: history is append-only: in every step, the attempts stored for a
\* quiz before the step are a prefix of those stored after it, so no
\* attempt is changed, moved or removed, and a second submission comes
\* after the first.
C3_HistoryAppendOnly ==
    [][\A k \in DOMAIN history :
          /\ k \in DOMAIN history'
          /\ IsPrefix(history[k], history'[k])]_vars

\* A quiz with two attempts, made by two submissions.
C3_TwoAttempts ==
    \E k \in DOMAIN history :
        /\ Len(history[k]) = 2
        /\ history[k][1].id # history[k][2].id

\* C4: exactly one tick task is live when state = playing and the session
\* is not paused, and none otherwise; and timerSeconds changes only by a
\* tick of a playing, unpaused session or by the reset to 0 of prepareQuiz.
C4_OneTickTaskWhilePlaying ==
    /\ [](tickTasks = IF state = "playing" /\ ~isPaused THEN 1 ELSE 0)
    /\ [][timerSeconds' # timerSeconds =>
            \/ /\ state = "playing"
               /\ ~isPaused
               /\ timerSeconds' = timerSeconds + 1
            \/ /\ state # "playing"
               /\ timerSeconds' = 0
               /\ currentIdx' = 0
               /\ selectedOptions' = EmptyMap
               /\ ~isPaused']_vars

\* A session that ticked was left: the hub is shown and no task is live.
C4_SessionWithTicksLeft ==
    /\ state = "idle"
    /\ timerSeconds > 0
    /\ tickTasks = 0

\* C5: a paused session's timerSeconds does not change: every step of a
\* paused playing session, the resume included, leaves it as it was, and
\* the first change after the resume is a tick to the next second.
C5_PausedTimerFrozen ==
    [][/\ (state = "playing" /\ isPaused) => timerSeconds' = timerSeconds
       /\ (state = "playing" /\ state' = "playing" /\ timerSeconds' # timerSeconds)
             => (~isPaused /\ timerSeconds' = timerSeconds + 1)]_vars

\* A session paused after it ticked.
C5_PausedAfterTick ==
    /\ state = "playing"
    /\ isPaused
    /\ timerSeconds > 0
    /\ tickTasks = 0

\* C6: at most one extraction call is outstanding at any time.
C6_OneOutstandingCall == Len(pending) <= 1

\* Two extraction calls are in flight.
C6_TwoCallsInFlight ==
    /\ Len(pending) = 2
    /\ state = "extracting"

\* C7: generateSignature depends on the collection of question texts and
\* not on their order: two responses whose texts are permutations of each
\* other get the same quiz id whatever their titles and options, and once
\* both are imported the cache holds one entry, under that id.
C7_SignatureIgnoresOrder ==
    (/\ Len(sigInput) = 2
     /\ SameMultiset(QuestionTexts(sigInput[1]), QuestionTexts(sigInput[2])))
    => /\ generateSignature(sigInput[1]) = generateSignature(sigInput[2])
       /\ sigPos = 2 =>
             /\ DOMAIN parsedCache = {generateSignature(sigInput[1])}
             /\ parsedCache[generateSignature(sigInput[1])].title = sigInput[2].title

\* Two responses with the same texts in different orders were imported.
C7_PermutedImport ==
    /\ sigPos = 2
    /\ Len(sigInput[1].questions) = MaxLen
    /\ QuestionTexts(sigInput[1]) # QuestionTexts(sigInput[2])
    /\ SameMultiset(QuestionTexts(sigInput[1]), QuestionTexts(sigInput[2]))
    /\ Cardinality(DOMAIN parsedCache) = 1

\* C8: the mistake bank of a quiz lists every cached question that some
\* attempt of the quiz answers wrongly with an explicit selection, whatever
\* the other attempts say about the question: every question whose stored
\* answer is wrong with a selection recorded, and, on the completed screen,
\* every question of the session just submitted whose selected option is
\* not its correct answer.
C8_AnyWrongAttemptCounts ==
    /\ \A k \in DOMAIN history : \A a \in 1..Len(history[k]) :
          \A n \in 1..Len(history[k][a].answers) :
              LET ans == history[k][a].answers[n]
              IN  (~ans.isCorrect /\ ans.selectedOption # NotAnswered) =>
                      \A m \in 1..Len(getQuizData(k).questions) :
                          getQuizData(k).questions[m].id = ans.questionId =>
                              /\ k \in DOMAIN failedQuestionsGrouped
                              /\ getQuizData(k).questions[m]
                                    \in Range(failedQuestionsGrouped[k])
    /\ state = "completed" =>
          \A n \in 1..Len(shuffledQuestions) :
              LET q == shuffledQuestions[n]
              IN  (/\ q.id \in DOMAIN selectedOptions
                   /\ selectedOptions[q.id] # q.correctAnswer) =>
                      \A m \in 1..Len(getQuizData(activeQuizId).questions) :
                          getQuizData(activeQuizId).questions[m].id = q.id =>
                              /\ activeQuizId \in DOMAIN failedQuestionsGrouped
                              /\ getQuizData(activeQuizId).questions[m]
                                    \in Range(failedQuestionsGrouped[activeQuizId])

\* A session of a cached quiz was submitted with the empty option selected
\* for a question whose correct answer is another option, and the mistake
\* bank does not list the question.
C8_EmptyWrongSelectionDropped ==
    /\ state = "completed"
    /\ \E n \in 1..Len(shuffledQuestions) :
          LET q == shuffledQuestions[n]
          IN  /\ q.id \in DOMAIN selectedOptions
              /\ selectedOptions[q.id] = ""
              /\ q.correctAnswer # ""
              /\ q.id \in QuestionIds(getQuizData(activeQuizId).questions)
              /\ \A k \in DOMAIN failedQuestionsGrouped :
                    q.id \notin QuestionIds(failedQuestionsGrouped[k])

\* C9: shuffleArray returns an array of the same length and the same
\* multiset of elements as its argument, whatever is drawn, and leaves the
\* argument as it was; and every arrangement of the argument is a result of
\* some draws.
C9_ShuffleIsPermutation ==
    /\ [](/\ shufflePc # "call" =>
                /\ Len(newArr) = Len(array)
                /\ SameMultiset(newArr, array)
          /\ shufflePc = "done" => newArr \in shuffleArray(array)
          /\ shuffleArray(array) = Perms(array))
    /\ [][array' = array]_vars

\* A run over three different elements that returned another arrangement.
C9_ShuffledThree ==
    /\ shufflePc = "done"
    /\ Len(array) = MaxLen
    /\ Cardinality(Range(array)) = MaxLen
    /\ newArr # array

\* 100 * score / total lies halfway between two integers.
IsHalfway(score, total) == (200 * score) % (2 * total) = total

\* 100 * score / total rounded to the nearest integer, a half going to the
\* even integer.
RoundedPercentHalfEven(score, total) ==
    IF IsHalfway(score, total) /\ RoundedPercent(score, total) % 2 = 1
    THEN RoundedPercent(score, total) - 1
    ELSE RoundedPercent(score, total)

\* s is 100 * score / total rounded to the nearest integer, under either
\* rule for a half.
IsRoundedPercent(s, score, total) ==
    s \in {RoundedPercent(score, total), RoundedPercentHalfEven(score, total)}

\* The selections of the scenario: the right option everywhere but "5" for
\* the question whose answer is "4".
ScenarioSelected ==
    /\ Len(shuffledQuestions) = 3
    /\ \A n \in 1..Len(shuffledQuestions) :
          /\ shuffledQuestions[n].id \in DOMAIN selectedOptions
          /\ selectedOptions[shuffledQuestions[n].id] =
                IF shuffledQuestions[n].correctAnswer = "4" THEN "5"
                ELSE shuffledQuestions[n].correctAnswer

\* C10: the score of every stored attempt is the number of its answers
\* with isCorrect and is at most totalQuestions; the accuracy of its
\* history row, and the accuracy of the completed screen after its
\* submission, are 100 * score / totalQuestions rounded to the nearest
\* integer; the same holds of every history row rendered for a score of at
\* most totalQuestions; and the selections Paris, 5, Red for the answers
\* Paris, 4, Red give correct, incorrect, correct, score 2 and accuracy 67.
C10_ScoreAndAccuracy ==
    /\ \A k \in DOMAIN history : \A a \in 1..Len(history[k]) :
          LET att == history[k][a]
          IN  /\ att.score =
                    Cardinality({n \in 1..Len(att.answers) : att.answers[n].isCorrect})
              /\ att.score <= att.totalQuestions
              /\ IsRoundedPercent(RowAccuracy(att), att.score, att.totalQuestions)
    /\ state = "completed" =>
          /\ IsRoundedPercent(CompletedAccuracy, LastAttempt.score,
                              LastAttempt.totalQuestions)
          /\ CompletedAccuracy = RowAccuracy(LastAttempt)
    /\ (state = "completed" /\ ScenarioSelected) =>
          /\ \A n \in 1..Len(userAnswers) :
                userAnswers[n].isCorrect = (shuffledQuestions[n].correctAnswer # "4")
          /\ LastAttempt.score = 2
          /\ CompletedAccuracy = 67
          /\ RowAccuracy(LastAttempt) = 67
    /\ accPc = "done" => IsRoundedPercent(accShown, accScore, accTotal)

\* The row of an attempt with 23 of 40 right, which is 57.5 percent, was
\* rendered as 57.
C10_HalfwayShownBelow ==
    /\ accPc = "done"
    /\ accScore = 23
    /\ accTotal = 40
    /\ accShown = 57

\* C11: a session submitted without any selection gives, for every
\* question, a UserAnswer with selectedOption "Not Answered" and isCorrect
\* false, and an attempt of score 0.
C11_NoSelectionScoresZero ==
    (state = "completed" /\ selectedOptions = EmptyMap) =>
        /\ Len(userAnswers) = Len(shuffledQuestions)
        /\ \A n \in 1..Len(userAnswers) :
              /\ userAnswers[n].questionId = shuffledQuestions[n].id
              /\ userAnswers[n].selectedOption = NotAnswered
              /\ ~userAnswers[n].isCorrect
        /\ LastAttempt.answers = userAnswers
        /\ LastAttempt.score = 0

\* A session of three questions was submitted without a selection.
C11_ThreeSkipped ==
    /\ state = "completed"
    /\ selectedOptions = EmptyMap
    /\ Len(userAnswers) = 3
    /\ LastAttempt.score = 0

\* C12: two calls of toggleFlag with the same id in a row bring
\* globalFlaggedIds and sessionFlags back to the sets they were before the
\* first call, and one call flips the membership of that id in both sets
\* and of no other id.
C12_ToggleTwiceRestores ==
    /\ flagCalls = 1 =>
          \A id \in FlagIds :
              /\ (id \in Range(globalFlaggedIds))
                    = ((id \in Range(flagStart.global)) # (id = flagId))
              /\ (id \in Range(sessionFlags))
                    = ((id \in Range(flagStart.session)) # (id = flagId))
    /\ flagCalls = 2 =>
          /\ Range(globalFlaggedIds) = Range(flagStart.global)
          /\ Range(sessionFlags) = Range(flagStart.session)
    /\ Cardinality(Range(globalFlaggedIds)) = Len(globalFlaggedIds)
    /\ Cardinality(Range(sessionFlags)) = Len(sessionFlags)

\* The id was toggled twice on sets that held it in one set only, among
\* other ids.
C12_ToggledTwice ==
    /\ flagCalls = 2
    /\ flagId \in Range(globalFlaggedIds)
    /\ flagId \notin Range(sessionFlags)
    /\ Len(globalFlaggedIds) = 3
    /\ Len(sessionFlags) = 1

\* C13: the step in which an extraction call fails leaves the state idle,
\* issues no call (the pending calls are those before, less the failed
\* one), and leaves parsedCache and history as they were.
C13_FailureReturnsToIdle ==
    [][(Mounted /\ \E n \in 1..Len(pending) : ResolveExtraction(n, Failure)) =>
          /\ state' = "idle"
          /\ Len(pending') = Len(pending) - 1
          /\ parsedCache' = parsedCache
          /\ history' = history]_vars

\* The call for the selected library quiz failed: the hub is shown, no call
\* is pending and the quiz is not cached.
C13_SelectFailed ==
    /\ state = "idle"
    /\ pending = <<>>
    /\ activeQuizId \in Range(LibraryIds)
    /\ activeQuizId \notin DOMAIN parsedCache

\* C14: after the load effect the hub is shown, and each of history,
\* parsedCache and globalFlaggedIds whose storage key is absent or holds
\* a text that does not parse is empty.
C14_UnreadableStorageIsEmpty ==
    loaded =>
        /\ state = "idle"
        /\ storage.history \in Unreadable => history = EmptyMap
        /\ storage.cache \in Unreadable => parsedCache = EmptyMap
        /\ storage.flags \in Unreadable => globalFlaggedIds = <<>>

\* The load effect ran on a history text that does not parse.
C14_CorruptHistoryLoaded ==
    /\ loaded
    /\ storage.history = Corrupt
    /\ storage.cache \in StoredCaches
    /\ state = "unmounted"

\* C15: from every reachable state the hub can be reached: the hub is
\* shown, or the header logo, which every screen has, leads to it.
C15_IdleReachable == state = "idle" \/ ENABLED LogoClick

\* A session prepared from an empty question list: nothing is rendered any
\* more, so no handler can run.
C15_EmptySessionStuck ==
    /\ state = "unmounted"
    /\ ~ENABLED LogoClick
    /\ pending = <<>>

\* The React state is 'playing': the playing screen is shown, or its render
\* threw.
PlayingSet == state \in {"playing", "unmounted"}

\* C16: whenever the state is playing, 0 <= currentIdx <
\* len(shuffledQuestions), after prepareQuiz on any list it is called with
\* and after any navigation.
C16_IndexInRange ==
    PlayingSet => (0 <= currentIdx /\ currentIdx < Len(shuffledQuestions))

\* Start Exam on a quiz without questions: index 0 of an empty list.
C16_IndexOfEmptyList ==
    /\ PlayingSet
    /\ currentIdx = 0
    /\ shuffledQuestions = <<>>
    /\ getQuizData(activeQuizId).questions = <<>>

\* C17: every key of selectedOptions is the id of a question of
\* shuffledQuestions and its value is one of that question's options; and a
\* step that changes selectedOptions either empties it or sets the entry
\* of the current question, leaving the other entries as they were.
C17_SelectionsAreOptions ==
    /\ [](\A k \in DOMAIN selectedOptions :
            \E n \in 1..Len(shuffledQuestions) :
                /\ shuffledQuestions[n].id = k
                /\ selectedOptions[k] \in Range(shuffledQuestions[n].options))
    /\ [][selectedOptions' # selectedOptions =>
            \/ selectedOptions' = EmptyMap
            \/ /\ state = "playing"
               /\ DOMAIN selectedOptions' =
                     DOMAIN selectedOptions \cup {shuffledQuestions[currentIdx + 1].id}
               /\ \A k \in DOMAIN selectedOptions :
                     k # shuffledQuestions[currentIdx + 1].id =>
                         selectedOptions'[k] = selectedOptions[k]]_vars

\* Both questions of a session are answered, one of them with the second
\* of its two options.
C17_Reselected ==
    /\ state = "playing"
    /\ Len(shuffledQuestions) = 2
    /\ Cardinality(DOMAIN selectedOptions) = 2
    /\ \E n \in 1..2 :
          /\ Len(shuffledQuestions[n].options) = 2
          /\ selectedOptions[shuffledQuestions[n].id] = shuffledQuestions[n].options[2]

\* C18: every step into playing is a preparation: right after it
\* currentIdx = 0, selectedOptions, sessionFlags and userAnswers are empty,
\* timerSeconds = 0 and isPaused = false, whatever the session before left
\* behind.
C18_PlayingStartsFresh ==
    [][(state # "playing" /\ state' = "playing") =>
          /\ currentIdx' = 0
          /\ selectedOptions' = EmptyMap
          /\ sessionFlags' = <<>>
          /\ userAnswers' = <<>>
          /\ timerSeconds' = 0
          /\ ~isPaused'
          /\ tickTasks' = 1]_vars

\* A session prepared after another one was submitted.
C18_SecondSession ==
    /\ state = "playing"
    /\ now > 0
    /\ history # EmptyMap
    /\ userAnswers = <<>>
    /\ selectedOptions = EmptyMap
    /\ currentIdx = 0

\* The lists a preparation can be given in the current state: the questions
\* of the active quiz on the history screen, a group of the mistake bank or
\* the flagged questions in the hub.
GivenLists ==
    IF state = "history" THEN {getQuizData(activeQuizId).questions}
    ELSE {failedQuestionsGrouped[qId] : qId \in DOMAIN failedQuestionsGrouped}
            \cup {flaggedQuestions}

\* prepared holds the questions of given in some order, each with its id,
\* text and correct answer and with its options in some order.
IsReordering(prepared, given) ==
    /\ Len(prepared) = Len(given)
    /\ \E p \in [1..Len(given) -> 1..Len(given)] :
          /\ \A m, n \in 1..Len(given) : p[m] = p[n] => m = n
          /\ \A n \in 1..Len(given) :
                /\ prepared[n].id = given[p[n]].id
                /\ prepared[n].question = given[p[n]].question
                /\ prepared[n].correctAnswer = given[p[n]].correctAnswer
                /\ SameMultiset(prepared[n].options, given[p[n]].options)

\* C19: a preparation only reorders: shuffledQuestions is a permutation of
\* the list it was given, every prepared question keeps its id, text and
\* correctAnswer and has a permutation of its options, and parsedCache (the
\* order of its questions and of their options) is left as it was.
C19_PrepareOnlyReorders ==
    [][(state # "playing" /\ state' = "playing") =>
          /\ \E given \in GivenLists : IsReordering(shuffledQuestions', given)
          /\ parsedCache' = parsedCache]_vars

\* A session whose questions and whose options both come in another order
\* than the cached quiz has them.
C19_ReorderedSession ==
    /\ state = "playing"
    /\ activeQuizId \in DOMAIN parsedCache
    /\ Len(parsedCache[activeQuizId].questions) = 2
    /\ Len(shuffledQuestions) = 2
    /\ shuffledQuestions[1].id = parsedCache[activeQuizId].questions[2].id
    /\ shuffledQuestions[2].id = parsedCache[activeQuizId].questions[1].id
    /\ \E n \in 1..2 :
          /\ Len(shuffledQuestions[n].options) = 2
          /\ shuffledQuestions[n].options[1]
                = parsedCache[activeQuizId].questions[3 - n].options[2]
          /\ shuffledQuestions[n].options[1] # shuffledQuestions[n].options[2]

\* The questions of a cached quiz have pairwise different texts.
DistinctTexts(quiz) ==
    \A m, n \in 1..Len(quiz.questions) :
        quiz.questions[m].question = quiz.questions[n].question => m = n

\* C20: when an import stores, under a quiz id that is already cached, the
\* same set of question texts again (in whatever order the extraction call
\* returned them), every question text has the question id it had before.
C20_TextKeepsItsId ==
    [][\A id \in DOMAIN parsedCache \cap DOMAIN parsedCache' :
          (/\ DistinctTexts(parsedCache[id])
           /\ SameMultiset(QuestionTexts(parsedCache[id]), QuestionTexts(parsedCache'[id])))
          => \A m \in 1..Len(parsedCache[id].questions) :
                \A n \in 1..Len(parsedCache'[id].questions) :
                    parsedCache[id].questions[m].question
                        = parsedCache'[id].questions[n].question
                    => parsedCache[id].questions[m].id = parsedCache'[id].questions[n].id]_vars

\* The same different texts were imported twice, in two orders, and the
\* first question id of the cached quiz now belongs to another text than
\* after the first import.
C20_IdMovedToOtherText ==
    /\ sigPos = 2
    /\ Len(sigInput[1].questions) > 1
    /\ DistinctTexts(parseGeminiResponse(sigInput[1]))
    /\ SameMultiset(QuestionTexts(sigInput[1]), QuestionTexts(sigInput[2]))
    /\ DOMAIN parsedCache = {generateSignature(sigInput[1])}
    /\ LET before == parseGeminiResponse(sigInput[1]).questions[1]
           after == parsedCache[generateSignature(sigInput[1])].questions[1]
       IN  before.id = after.id /\ before.question # after.question

\* C21: the mistake-bank view lists a question only if some attempt of the
\* quiz it is grouped under holds an answer for it that is wrong and has a
\* selection other than "Not Answered"; every listed question is a question
\* of the cached list of that quiz, and no group of the view is empty.
C21_MistakeBankOnlyAnsweredWrong ==
    \A qId \in DOMAIN failedQuestionsGrouped :
        /\ qId \in DOMAIN history
        /\ Len(failedQuestionsGrouped[qId]) > 0
        /\ \A n \in 1..Len(failedQuestionsGrouped[qId]) :
              /\ \E m \in 1..Len(getQuizData(qId).questions) :
                    getQuizData(qId).questions[m] = failedQuestionsGrouped[qId][n]
              /\ \E a \in 1..Len(history[qId]) :
                    \E k \in 1..Len(history[qId][a].answers) :
                        /\ history[qId][a].answers[k].questionId
                              = failedQuestionsGrouped[qId][n].id
                        /\ ~history[qId][a].answers[k].isCorrect
                        /\ history[qId][a].answers[k].selectedOption # NotAnswered

\* An attempt answered one question wrongly and skipped another one: the
\* group of its quiz lists the first and not the second.
C21_SkippedNotListed ==
    \E qId \in DOMAIN failedQuestionsGrouped :
        \E k, s \in 1..Len(history[qId][1].answers) :
            /\ ~history[qId][1].answers[k].isCorrect
            /\ history[qId][1].answers[k].selectedOption # NotAnswered
            /\ history[qId][1].answers[k].questionId
                  \in QuestionIds(failedQuestionsGrouped[qId])
            /\ ~history[qId][1].answers[s].isCorrect
            /\ history[qId][1].answers[s].selectedOption = NotAnswered
            /\ history[qId][1].answers[s].questionId
                  \in QuestionIds(getQuizData(qId).questions)
            /\ history[qId][1].answers[s].questionId
                  \notin QuestionIds(failedQuestionsGrouped[qId])

\* C22: returning to the hub resets the session: after every step of the
\* user into idle (header logo, Terminate, back arrow, Return to Hub)
\* selectedOptions and sessionFlags are empty and globalFlaggedIds is what
\* it was before the step.
C22_HubResetsSession ==
    [][(state # "idle" /\ state' = "idle" /\ pending' = pending) =>
          /\ selectedOptions' = EmptyMap
          /\ sessionFlags' = <<>>
          /\ globalFlaggedIds' = globalFlaggedIds]_vars

\* The hub is shown with a selection and a session flag of the session
\* that was left.
C22_HubWithSessionLeftovers ==
    /\ state = "idle"
    /\ selectedOptions # EmptyMap
    /\ sessionFlags # <<>>
    /\ globalFlaggedIds = sessionFlags

\* C23: during a session every id of sessionFlags is an id of
\* globalFlaggedIds, also after a question flagged in an earlier session
\* was toggled.
C23_SessionFlagsAreGlobal ==
    state = "playing" => Range(sessionFlags) \subseteq Range(globalFlaggedIds)

\* The current question, flagged in an earlier session, was toggled in this
\* one: it is in sessionFlags and no longer in globalFlaggedIds.
C23_UnflaggedButSessionFlagged ==
    /\ state = "playing"
    /\ globalFlaggedIds = <<>>
    /\ sessionFlags = <<shuffledQuestions[currentIdx + 1].id>>

\* C24: no step taken from a paused playing session changes
\* selectedOptions, and in every playing session that is not paused (so
\* after every resume) an option of the current question can be selected.
C24_PausedBlocksSelection ==
    /\ [][(state = "playing" /\ isPaused) => selectedOptions' = selectedOptions]_vars
    /\ []((state = "playing" /\ ~isPaused)
            => ENABLED (\E option \in OptionStrings : SelectOption(option)))

\* A paused session in which the click on an option of the current
\* question is taken and changes selectedOptions.
C24_PausedWithSelection ==
    /\ state = "playing"
    /\ isPaused
    /\ ENABLED (\E option \in OptionStrings :
                    /\ SelectOption(option)
                    /\ selectedOptions' # selectedOptions)

\* C25: a submission without confirmation (Finalize) can be made only on
\* the last question; the two early-submit buttons ask for confirmation,
\* and a declined confirmation leaves state, history, selectedOptions,
\* sessionFlags, currentIdx and userAnswers as they were.
C25_SubmitNeedsLastOrConfirm ==
    /\ []((ENABLED Finalize)
            => state = "playing" /\ currentIdx = Len(shuffledQuestions) - 1)
    /\ [][(EarlySubmit(FALSE) \/ SubmitQuizEarly(FALSE))
            => /\ state' = "playing"
               /\ UNCHANGED <<history, selectedOptions, sessionFlags, currentIdx,
                              userAnswers>>]_vars

\* A session of two questions on its first question, with an answer
\* selected: Finalize is not offered, the early submit is, and its
\* confirmation can be declined.
C25_EarlyOnly ==
    /\ state = "playing"
    /\ Len(shuffledQuestions) = 2
    /\ currentIdx = 0
    /\ selectedOptions # EmptyMap
    /\ ~ENABLED Finalize
    /\ ENABLED EarlySubmit(FALSE)
    /\ ENABLED SubmitQuizEarly(TRUE)

\* C26: an extraction response with an empty question list counts as a
\* failed extraction: no quiz without questions is ever in parsedCache.
C26_NoEmptyQuizCached ==
    \A id \in DOMAIN parsedCache : Len(parsedCache[id].questions) > 0

\* The history screen of a quiz that was just extracted with no question.
C26_EmptyQuizShown ==
    /\ state = "history"
    /\ pending = <<>>
    /\ activeQuizId \in DOMAIN parsedCache
    /\ parsedCache[activeQuizId].questions = <<>>
    /\ history = EmptyMap

\* C27: whenever the audit list is shown (completed or review), the
\* question of every answer of the list is found in the cached quiz of
\* activeQuizId.
C27_AuditLookupFinds ==
    state \in {"completed", "review"} =>
        \A n \in 1..Len(AuditAnswers) :
            AuditAnswers[n].questionId
                \in QuestionIds(getQuizData(activeQuizId).questions)

\* A practice session was submitted while another quiz was the active one:
\* the completed screen has answers of which none is found in that quiz.
C27_AuditOfForeignQuestions ==
    /\ state = "completed"
    /\ userAnswers # <<>>
    /\ \A n \in 1..Len(userAnswers) :
          userAnswers[n].questionId
              \notin QuestionIds(getQuizData(activeQuizId).questions)
    /\ \E qId \in DOMAIN parsedCache :
          /\ qId # activeQuizId
          /\ QuestionIds(shuffledQuestions) \subseteq QuestionIds(parsedCache[qId].questions)

\* C28: whenever the history screen is shown, activeQuizId is not null and
\* is a key of parsedCache, so that Start Exam prepares the cached questions
\* of the quiz shown.
C28_HistoryOfCachedQuiz ==
    state = "history" =>
        /\ activeQuizId # Null
        /\ activeQuizId \in DOMAIN parsedCache

\* The history screen of a library set whose extraction failed, reached by
\* View All Attempts after a practice session was recorded under it.
C28_HistoryOfUncachedQuiz ==
    /\ state = "history"
    /\ activeQuizId \in Range(LibraryIds)
    /\ activeQuizId \notin DOMAIN parsedCache
    /\ activeQuizId \in DOMAIN history
    /\ getQuizData(activeQuizId).questions = <<>>

\* C29: the completion of an extraction call, successful or failed, leaves
\* state and activeQuizId alone when the user has meanwhile reached a
\* playing, completed or review screen.
C29_LateResultDoesNotInterrupt ==
    [][(/\ state \in {"playing", "completed", "review"}
        /\ Len(pending') < Len(pending))
        => (state' = state /\ activeQuizId' = activeQuizId)]_vars

\* A session with an answer selected while an extraction call started
\* before it is still in flight.
C29_SessionWithCallInFlight ==
    /\ state = "playing"
    /\ selectedOptions # EmptyMap
    /\ pending # <<>>
    /\ ENABLED (\E outcome \in Outcomes(budget.quizzes) : ResolveExtraction(1, outcome))

\* C30: whenever the review screen is shown, selectedAttempt is an attempt
\* (not null) and is one of the attempts stored in history[activeQuizId],
\* whatever extraction calls are in flight or have completed meanwhile.
C30_ReviewedAttemptIsStored ==
    state = "review" =>
        /\ selectedAttempt # NoAttempt
        /\ activeQuizId \in DOMAIN history
        /\ \E n \in 1..Len(history[activeQuizId]) :
              history[activeQuizId][n] = selectedAttempt

\* An attempt is reviewed while an import started earlier is in flight.
C30_ReviewWithCallInFlight ==
    /\ state = "review"
    /\ selectedAttempt # NoAttempt
    /\ selectedAttempt.answers # <<>>
    /\ pending # <<>>
    /\ pending[1].kind = "import"

====
